---- MODULE Spec2Model ----
(***************************************************************************)
(* State-machine model of the Inception desktop chat client's persistence  *)
(* core: the conversation store and the current-conversation pointer of    *)
(* the main process (db:* IPC handlers), the renderer's chat submit        *)
(* handler, and the settings store (settings:save / settings:load).        *)
(* Line numbers refer to src/unnamed/part_001 (main process) and           *)
(* src/unnamed/part_002 (renderer).                                        *)
(***************************************************************************)
EXTENDS Integers, Sequences, FiniteSets, Bags, TLC

VARIABLES
  db,                     \* the better-sqlite3 handle: "open" or "null"
  conversations,          \* table conversations, row i has id i (AUTOINCREMENT, no deletes)
  messages,               \* table messages, row i has id i
  currentConversationId,  \* the module-level pointer; 0 models null
  now,                    \* CURRENT_TIMESTAMP, in seconds (the clock stands still here)
  last,                   \* ghost: the latest db:* handler call and its outcome
  subs,                   \* renderer: the chat submit handlers in progress
  general,                \* userData/settings.json
  secret,                 \* ~/.inception/config.json
  calls,                  \* main: the settings:* handler invocations in progress (a bag)
  solo,                   \* ghost: whether the invocation in progress runs alone, and the files
                          \* at the call of the latest invocation that started alone
  sret,                   \* ghost: the latest settings:* handler return
  running,                \* main: the db:save-message invocation that has begun and not returned
  mainWindow              \* main: the BrowserWindow: "shown", "hidden" or "null"

storeVars == <<db, conversations, messages, currentConversationId, now, last>>
chatVars == <<subs>>
settingsVars == <<general, secret, calls, solo, sret>>
mainVars == <<running, mainWindow>>
notStoreVars == <<subs, general, secret, calls, solo, sret, running, mainWindow>>
notSettingsVars == <<db, conversations, messages, currentConversationId, now, last, subs,
                     running, mainWindow>>
vars == <<db, conversations, messages, currentConversationId, now, last,
          subs, general, secret, calls, solo, sret, running, mainWindow>>

-----------------------------------------------------------------------------
(* Bounds of the model *)

MaxConvs == 2
MaxMsgs == 2
MaxTime == 1

-----------------------------------------------------------------------------
(* JavaScript values.  A value is a record of one shape, so that values of *)
(* different JavaScript types can be compared and put in one set.          *)

Str(s) == [t |-> "string", s |-> s, n |-> 0, frac |-> FALSE]
Num(n) == [t |-> "number", s |-> "", n |-> n, frac |-> FALSE]
\* the number n + 0.5 (n >= 0)
Frac(n) == [t |-> "number", s |-> "", n |-> n, frac |-> TRUE]
Undefined == [t |-> "undefined", s |-> "", n |-> 0, frac |-> FALSE]
Null == [t |-> "null", s |-> "", n |-> 0, frac |-> FALSE]
True == [t |-> "boolean", s |-> "", n |-> 1, frac |-> FALSE]
False == [t |-> "boolean", s |-> "", n |-> 0, frac |-> FALSE]
\* some plain object / array value
ObjectValue == [t |-> "object", s |-> "", n |-> 0, frac |-> FALSE]

typeof(v) == IF v.t = "null" THEN "object" ELSE v.t

\* ToBoolean
Truthy(v) ==
  CASE v.t = "string" -> v.s # ""
    [] v.t = "number" -> v.n # 0 \/ v.frac
    [] v.t = "boolean" -> v.n = 1
    [] v.t = "object" -> TRUE
    [] OTHER -> FALSE

IsWhite(c) == c \in {" ", "\t", "\n", "\r"}

RECURSIVE TrimStart(_)
TrimStart(s) ==
  IF Len(s) > 0 /\ IsWhite(SubSeq(s, 1, 1)) THEN TrimStart(SubSeq(s, 2, Len(s))) ELSE s

RECURSIVE TrimEnd(_)
TrimEnd(s) ==
  IF Len(s) > 0 /\ IsWhite(SubSeq(s, Len(s), Len(s)))
  THEN TrimEnd(SubSeq(s, 1, Len(s) - 1)) ELSE s

\* String.prototype.trim
trim(s) == TrimEnd(TrimStart(s))

\* String.prototype.substring(0, n)
substring0(s, n) == IF Len(s) > n THEN SubSeq(s, 1, n) ELSE s

Digits == <<"0", "1", "2", "3", "4", "5", "6", "7", "8", "9">>
IsDigit(c) == \E d \in 1..10 : Digits[d] = c
DigitVal(c) == (CHOOSE d \in 1..10 : Digits[d] = c) - 1

NaN == [nan |-> TRUE, n |-> 0]
Int32(n) == [nan |-> FALSE, n |-> n]

\* the value of the longest prefix of decimal digits of s, given the value acc so far
RECURSIVE DigitRun(_, _)
DigitRun(s, acc) ==
  IF Len(s) > 0 /\ IsDigit(SubSeq(s, 1, 1))
  THEN DigitRun(SubSeq(s, 2, Len(s)), 10 * acc + DigitVal(SubSeq(s, 1, 1)))
  ELSE acc

\* parseInt(string, 10): leading white space, an optional sign, then digits;
\* what follows the digits is ignored; no digit at all gives NaN
ParseIntStr(s) ==
  LET u == TrimStart(s)
      neg == Len(u) > 0 /\ SubSeq(u, 1, 1) = "-"
      signed == Len(u) > 0 /\ SubSeq(u, 1, 1) \in {"-", "+"}
      d == IF signed THEN SubSeq(u, 2, Len(u)) ELSE u
  IN IF Len(d) > 0 /\ IsDigit(SubSeq(d, 1, 1))
     THEN Int32(IF neg THEN 0 - DigitRun(d, 0) ELSE DigitRun(d, 0))
     ELSE NaN

\* parseInt(v, 10): v is converted to a string first, so a number gives its
\* integer part and undefined, null, booleans and objects give NaN
parseInt(v) ==
  CASE v.t = "string" -> ParseIntStr(v.s)
    [] v.t = "number" -> Int32(v.n)
    [] OTHER -> NaN

-----------------------------------------------------------------------------
(* Conversation store and session controller (main process) *)

\* the record of a handler call: the handler, its arguments, the statement
\* that threw (failAt), the value returned (ret) or that the handler threw;
\* seq flips on every call.  A query returns an array (ObjectValue here): its
\* rows are one of ConversationMessages(arg) / RecentChats in the state of the call
\* no db:save-message invocation has begun without returning
NoFrame == [pc |-> "none"]

NoCall == [op |-> "none", role |-> Undefined, content |-> Undefined, arg |-> Undefined,
           ret |-> Undefined, threw |-> FALSE, failAt |-> "none", seq |-> 0]

\* inputs of the handlers
Roles == {Str("user"), Str("assistant"), Str("system")}
Contents == {Str(" yo "), Str(" \t"), Num(5)}
Titles == {Undefined, Str(" t ")}
ConversationIdArgs == {Num(1), Str("2"), Str("1abc"), Num(0)}

ConvRow(id, title, t) == [id |-> id, title |-> title, created_at |-> t, updated_at |-> t]
MsgRow(id, cid, role, content, t) ==
  [id |-> id, conversation_id |-> cid, role |-> role, content |-> content, created_at |-> t]

\* INSERT INTO conversations (title) VALUES (?): the new row, with the next
\* AUTOINCREMENT id and both timestamps defaulting to CURRENT_TIMESTAMP
InsertConversation(convs, title, t) == Append(convs, ConvRow(Len(convs) + 1, title, t))

\* variant: the content is stored trimmed
InsertMessageTrimmed(msgs, cid, role, content, t) ==
  Append(msgs, MsgRow(Len(msgs) + 1, cid, role, trim(content), t))

\* variant: the row is stored with no conversation (NULL)
InsertMessageNoParent(msgs, cid, role, content, t) ==
  Append(msgs, MsgRow(Len(msgs) + 1, 0, role, content, t))

\* INSERT INTO messages (conversation_id, role, content) VALUES (?, ?, ?)
InsertMessage(msgs, cid, role, content, t) ==
  Append(msgs, MsgRow(Len(msgs) + 1, cid, role, content, t))

\* variant: the update is left out
TouchConversationSkipped(convs, cid, t) == convs

\* variant: the update restamps the whole row
TouchConversationRestamps(convs, cid, t) ==
  [i \in 1..Len(convs) |-> IF convs[i].id = cid THEN ConvRow(convs[i].id, convs[i].title, t)
                                                 ELSE convs[i]]

\* UPDATE conversations SET updated_at = CURRENT_TIMESTAMP WHERE id = ?
TouchConversation(convs, cid, t) ==
  [i \in 1..Len(convs) |-> IF convs[i].id = cid THEN [convs[i] EXCEPT !.updated_at = t]
                                                 ELSE convs[i]]

\* program constants of the handlers
TitleFromContentMax == 50
SafeTitleMax == 200
RecentLimit == 20

\* what a handler call leaves behind: the tables, the pointer, the value
\* returned (ret), and whether the handler threw instead (threw)
Outcome(convs, msgs, ptr, ret, threw) ==
  [convs |-> convs, msgs |-> msgs, ptr |-> ptr, ret |-> ret, threw |-> threw]

Unchanged(ret) == Outcome(conversations, messages, currentConversationId, ret, FALSE)

\* the statements of a handler that may throw a storage error
FailPoints == {"none", "conversation", "message", "update", "select"}

\* variant: the whole content becomes the title
DerivedTitleUncut(content) == content

\* variant: every conversation created for a message gets the fixed title
DerivedTitleFixed(content) == "New Chat"

\* line 313: the title derived from the message content
DerivedTitle(content) ==
  IF Len(content) > TitleFromContentMax
  THEN substring0(content, TitleFromContentMax) \o "..."
  ELSE content

\* lines 304-305: the arguments db:save-message accepts
ValidMessage(role, content) ==
  /\ ~(role # Str("user") /\ role # Str("assistant"))
  /\ ~(typeof(content) # "string" \/ ~Truthy(Str(trim(content.s))))

\* variant: every message clears the pointer
PointerCleared(role, ptr) == 0

\* variant: the reply clears the pointer, the user message keeps it
PointerClearedForReply(role, ptr) == IF role = Str("assistant") THEN 0 ELSE ptr

\* variant: a user message keeps the pointer
PointerKept(role, ptr) == ptr

\* line 308-310: a user message clears the pointer first
PointerAfterRole(role, ptr) == IF role = Str("user") THEN 0 ELSE ptr

\* lines 312-332, after validation: create the conversation when the pointer
\* is null, insert the message, refresh updated_at; failAt is the statement
\* that throws, if any
StoreMessage(role, content, failAt) ==
  LET ptr1 == PointerAfterRole(role, currentConversationId)
      create == ptr1 = 0
      convs1 == IF create
                THEN InsertConversation(conversations, DerivedTitle(content.s), now)
                ELSE conversations
      ptr2 == IF create THEN Len(convs1) ELSE ptr1
      msgs1 == InsertMessage(messages, ptr2, role.s, content.s, now)
  IN CASE create /\ failAt = "conversation" ->
            Outcome(conversations, messages, ptr1, Null, FALSE)
       [] failAt = "message" -> Outcome(convs1, messages, ptr2, Null, FALSE)
       [] failAt = "update" -> Outcome(convs1, msgs1, ptr2, Null, FALSE)
       [] OTHER -> Outcome(TouchConversation(convs1, ptr2, now), msgs1, ptr2,
                           Num(Len(msgs1)), FALSE)

\* variant: the pointer is cleared for a user message before validation
SaveMessageClearsFirst(role, content, failAt) ==
  IF db = "null" THEN Unchanged(Null)
  ELSE IF ~ValidMessage(role, content)
       THEN Outcome(conversations, messages,
                    PointerAfterRole(role, currentConversationId), Null, FALSE)
  ELSE StoreMessage(role, content, failAt)

\* ipcMain.handle('db:save-message')
SaveMessageOutcome(role, content, failAt) ==
  IF db = "null" THEN Unchanged(Null)
  ELSE IF ~ValidMessage(role, content) THEN Unchanged(Null)
  ELSE StoreMessage(role, content, failAt)

\* variant: the title is stored at its full length
SafeTitleUncut(title) ==
  IF typeof(title) = "string" /\ Truthy(Str(trim(title.s)))
  THEN trim(title.s)
  ELSE "New Chat"

\* line 292-294
SafeTitle(title) ==
  IF typeof(title) = "string" /\ Truthy(Str(trim(title.s)))
  THEN substring0(trim(title.s), SafeTitleMax)
  ELSE "New Chat"

\* variant: the pointer is set to the expected id before the insert runs
CreateConversationPointsAhead(title, failAt) ==
  IF db = "null" THEN Unchanged(Null)
  ELSE IF failAt = "conversation"
       THEN Outcome(conversations, messages, Len(conversations) + 1, Undefined, TRUE)
       ELSE LET convs1 == InsertConversation(conversations, SafeTitle(title), now)
            IN Outcome(convs1, messages, Len(convs1), Num(Len(convs1)), FALSE)

\* ipcMain.handle('db:create-conversation'): no try/catch around the insert
CreateConversationOutcome(title, failAt) ==
  IF db = "null" THEN Unchanged(Null)
  ELSE IF failAt = "conversation"
       THEN Outcome(conversations, messages, currentConversationId, Undefined, TRUE)
       ELSE LET convs1 == InsertConversation(conversations, SafeTitle(title), now)
            IN Outcome(convs1, messages, Len(convs1), Num(Len(convs1)), FALSE)

\* variant: the pointer is left as it is
NewChatKeepsPointer == Unchanged(True)

\* ipcMain.handle('db:new-chat')
NewChatOutcome ==
  IF db = "null" THEN Unchanged(True)
  ELSE Outcome(conversations, messages, 0, True, FALSE)

\* the sequences that list the rows of set S once each in an order that
\* column key (ascending when asc, else descending) allows; rows with equal keys
\* come in any order, as SQL leaves it open
Orderings(S, key, asc) ==
  {q \in [1..Cardinality(S) -> S] :
     /\ \A i, j \in 1..Cardinality(S) : i # j => q[i] # q[j]
     /\ \A i, j \in 1..Cardinality(S) :
          i < j => IF asc THEN q[i][key] <= q[j][key] ELSE q[i][key] >= q[j][key]}

Rows(table) == {table[i] : i \in 1..Len(table)}

\* variant: the WHERE clause is missing
SelectAllMessages(id) == Orderings(Rows(messages), "created_at", TRUE)

\* SELECT * FROM messages WHERE conversation_id = ? ORDER BY created_at ASC
SelectMessages(id) ==
  Orderings({m \in Rows(messages) : m.conversation_id = id}, "created_at", TRUE)

\* lines 353-354: the argument as a positive integer, or 0 when rejected
ConversationIdOf(arg) ==
  LET id == parseInt(arg) IN IF id.nan \/ id.n <= 0 THEN 0 ELSE id.n

\* (SELECT content FROM messages WHERE conversation_id = c.id AND role = 'user'
\*  ORDER BY created_at ASC LIMIT 1): the candidates; {""} stands for NULL
FirstMessages(cid) ==
  LET us == {m \in Rows(messages) : m.conversation_id = cid /\ m.role = "user"}
  IN IF us = {} THEN {""}
     ELSE {m.content : m \in {u \in us : \A w \in us : u.created_at <= w.created_at}}

\* variant: the rows come oldest first and LIMIT is not applied
SelectRecentChatsUnlimited(limit) ==
  {[i \in 1..Len(q) |->
      [id |-> q[i].id, title |-> q[i].title, updated_at |-> q[i].updated_at,
       first_message |-> CHOOSE f \in FirstMessages(q[i].id) : TRUE]] :
   q \in Orderings(Rows(conversations), "updated_at", TRUE)}

\* SELECT c.id, c.title, c.updated_at, (...) as first_message FROM conversations c
\* ORDER BY c.updated_at DESC LIMIT limit
SelectRecentChatsLimit(limit) ==
  {[i \in 1..(IF Len(q) > limit THEN limit ELSE Len(q)) |->
      [id |-> q[i].id, title |-> q[i].title, updated_at |-> q[i].updated_at,
       first_message |-> CHOOSE f \in FirstMessages(q[i].id) : TRUE]] :
   q \in Orderings(Rows(conversations), "updated_at", FALSE)}

\* the statement of db:get-recent-chats: LIMIT 20
SelectRecentChats == SelectRecentChatsLimit(RecentLimit)

-----------------------------------------------------------------------------
(* The db:* handlers as actions.  better-sqlite3 is synchronous and the     *)
(* handlers hold no await, so each handler call is one atomic step.         *)

Apply(o) ==
  /\ conversations' = o.convs
  /\ messages' = o.msgs
  /\ currentConversationId' = o.ptr

Called(op, role, content, arg, failAt, ret, threw) ==
  [op |-> op, role |-> role, content |-> content, arg |-> arg, ret |-> ret,
   threw |-> threw, failAt |-> failAt, seq |-> 1 - last.seq]

HasRoom == Len(conversations) < MaxConvs /\ Len(messages) < MaxMsgs

\* the statement failures a db:save-message call can meet
SaveFailure(role, content, failAt) ==
  /\ failAt \in {"none", "conversation", "message", "update"}
  /\ failAt # "none" => db = "open" /\ ValidMessage(role, content)
  /\ failAt = "conversation" => PointerAfterRole(role, currentConversationId) = 0

SaveMessage(role, content, failAt) ==
  /\ HasRoom
  /\ SaveFailure(role, content, failAt)
  /\ LET o == SaveMessageOutcome(role, content, failAt)
     IN /\ Apply(o)
        /\ last' = Called("save", role, content, Undefined, failAt, o.ret, o.threw)
  /\ UNCHANGED <<db, now>>
  /\ UNCHANGED notStoreVars

CreateConversation(title, failAt) ==
  /\ HasRoom
  /\ failAt \in {"none", "conversation"}
  /\ failAt # "none" => db = "open"
  /\ LET o == CreateConversationOutcome(title, failAt)
     IN /\ Apply(o)
        /\ last' = Called("create", Undefined, Undefined, title, failAt, o.ret, o.threw)
  /\ UNCHANGED <<db, now>>
  /\ UNCHANGED notStoreVars

NewChat ==
  /\ Apply(NewChatOutcome)
  /\ last' = Called("newChat", Undefined, Undefined, Undefined, "none",
                    NewChatOutcome.ret, FALSE)
  /\ UNCHANGED <<db, now>>
  /\ UNCHANGED notStoreVars

\* ipcMain.handle('db:get-conversation-messages'): the arrays the handler may
\* return; it has no try/catch, so a failing query makes it throw
ConversationMessages(arg) ==
  IF db = "null" THEN {<<>>}
  ELSE IF ConversationIdOf(arg) = 0 THEN {<<>>}
  ELSE SelectMessages(ConversationIdOf(arg))

GetConversationMessages(arg, failAt) ==
  /\ failAt \in {"none", "select"}
  /\ failAt # "none" => db = "open" /\ ConversationIdOf(arg) # 0
  /\ last' = Called("messages", Undefined, Undefined, arg, failAt,
                    IF failAt = "select" THEN Undefined ELSE ObjectValue, failAt = "select")
  /\ UNCHANGED <<db, conversations, messages, currentConversationId, now>>
  /\ UNCHANGED notStoreVars

\* variant: the recent chats are queried without looking at the handle
RecentChatsIgnoresHandle == SelectRecentChats

\* ipcMain.handle('db:get-recent-chats'): no try/catch around the query either
RecentChats == IF db = "null" THEN {<<>>} ELSE SelectRecentChats

GetRecentChats(failAt) ==
  /\ failAt \in {"none", "select"}
  /\ failAt # "none" => db = "open"
  /\ last' = Called("recent", Undefined, Undefined, Undefined, failAt,
                    IF failAt = "select" THEN Undefined ELSE ObjectValue, failAt = "select")
  /\ UNCHANGED <<db, conversations, messages, currentConversationId, now>>
  /\ UNCHANGED notStoreVars

\* CURRENT_TIMESTAMP moves on by a second
Tick ==
  /\ now < MaxTime
  /\ now' = now + 1
  /\ UNCHANGED <<db, conversations, messages, currentConversationId, last>>
  /\ UNCHANGED notStoreVars

\* variant: a start resumes the latest stored conversation
ProcessStartResumes(ok) ==
  /\ db' = IF ok THEN "open" ELSE "null"
  /\ currentConversationId' = IF ok THEN Len(conversations) ELSE 0
  /\ last' = NoCall
  /\ UNCHANGED <<conversations, messages, now>>
  /\ UNCHANGED notStoreVars

\* a process start (app.whenReady -> createWindow -> initDatabase): the module
\* is loaded anew, so the pointer starts null (line 288) whatever
\* initDatabase does; the database file keeps its rows
ProcessStart(ok) ==
  /\ db' = IF ok THEN "open" ELSE "null"
  /\ currentConversationId' = 0
  /\ last' = NoCall
  /\ UNCHANGED <<conversations, messages, now>>
  /\ UNCHANGED notStoreVars

InitStore ==
  /\ db \in {"open", "null"}
  /\ conversations = <<>>
  /\ messages = <<>>
  /\ currentConversationId = 0
  /\ now = 0
  /\ last = NoCall
  /\ running = NoFrame
  /\ mainWindow = "shown"

-----------------------------------------------------------------------------
(* Settings store (main process): settings:save and settings:load.          *)
(* The handlers await fs.promises calls, so a handler runs as a sequence   *)
(* of steps, one per awaited file operation, and the steps of concurrent    *)
(* invocations interleave.                                                  *)

MaxCalls == 2

ALLOWED_MODELS ==
  {"mercury", "mercury-2", "mercury-coder", "mercury-coder-small", "mercury-coder-large"}
ALLOWED_THEMES == {"dark", "light", "auto"}
MAX_TOKENS_LIMIT == 16384

\* Array.prototype.includes on an array of strings (strict equality)
includes(S, v) == v.t = "string" /\ v.s \in S

\* a settings object: the four known keys; Undefined stands for an absent key
Object(model, maxTokens, theme, apiKey) ==
  [model |-> model, maxTokens |-> maxTokens, theme |-> theme, apiKey |-> apiKey]
EmptyObject == Object(Undefined, Undefined, Undefined, Undefined)

\* the content of a file: missing (readFile rejects), corrupt (JSON.parse
\* throws, or yields null so that reading a property throws), or a JSON object
Missing == [k |-> "missing", o |-> EmptyObject]
Corrupt == [k |-> "corrupt", o |-> EmptyObject]
Json(o) == [k |-> "obj", o |-> o]

\* JSON.parse(await fs.readFile(...)) succeeds
Readable(file) == file.k = "obj"

\* variant: another default theme
defaultsLight == Object(Str("mercury-2"), Num(16384), Str("light"), Undefined)

\* line 579
defaults == Object(Str("mercury-2"), Num(16384), Str("dark"), Undefined)

\* lines 560-561 and 590-591: the token limit read with parseInt
TokensInRange(v) ==
  LET t == parseInt(v) IN ~t.nan /\ t.n >= 1 /\ t.n <= MAX_TOKENS_LIMIT

\* variant: the stored values overlaid without validation
OtherSettingsRaw(file) ==
  IF ~Readable(file) THEN defaults
  ELSE Object(IF file.o.model # Undefined THEN file.o.model ELSE defaults.model,
              IF file.o.maxTokens # Undefined THEN file.o.maxTokens ELSE defaults.maxTokens,
              IF file.o.theme # Undefined THEN file.o.theme ELSE defaults.theme,
              Undefined)

\* lines 582-596: defaults overlaid with the valid values of settings.json
OtherSettings(file) ==
  IF ~Readable(file) THEN defaults
  ELSE LET parsed == file.o
       IN Object(
            IF Truthy(parsed.model) /\ includes(ALLOWED_MODELS, parsed.model)
              THEN parsed.model ELSE defaults.model,
            IF parsed.maxTokens \notin {Null, Undefined} /\ TokensInRange(parsed.maxTokens)
              THEN Num(parseInt(parsed.maxTokens).n) ELSE defaults.maxTokens,
            IF Truthy(parsed.theme) /\ includes(ALLOWED_THEMES, parsed.theme)
              THEN parsed.theme ELSE defaults.theme,
            Undefined)

\* lines 601-603: the key of config.json; reading throws when not Readable
SecretKey(file) == IF typeof(file.o.apiKey) = "string" THEN file.o.apiKey ELSE Str("")

\* line 610: settings.json holds a legacy key
HasLegacyKey(file) ==
  Readable(file) /\ Truthy(file.o.apiKey) /\ typeof(file.o.apiKey) = "string"

\* variant: the key stays in the object written back
restKeepsKey(parsed) == parsed

\* line 616: const { apiKey: _removed, ...rest } = parsed
rest(parsed) == [parsed EXCEPT !.apiKey = Undefined]

\* lines 555-567: the fields of the argument that fail validation
InvalidModel(o) == o.model # Undefined /\ ~includes(ALLOWED_MODELS, o.model)
InvalidTokens(o) == o.maxTokens # Undefined /\ ~TokensInRange(o.maxTokens)
InvalidTheme(o) == o.theme # Undefined /\ ~includes(ALLOWED_THEMES, o.theme)
InvalidPrefs(o) == InvalidModel(o) \/ InvalidTokens(o) \/ InvalidTheme(o)

\* variant: the theme is not copied to the object written to settings.json
safeSettingsWithoutTheme(o) ==
  Object(o.model,
         IF o.maxTokens # Undefined THEN Num(parseInt(o.maxTokens).n) ELSE Undefined,
         Undefined, Undefined)

\* variant: the key is copied to the object written to settings.json
safeSettingsWithKey(o) ==
  Object(o.model,
         IF o.maxTokens # Undefined THEN Num(parseInt(o.maxTokens).n) ELSE Undefined,
         o.theme, o.apiKey)

\* lines 554-567: safeSettings of an argument that passes validation
safeSettings(o) ==
  Object(o.model,
         IF o.maxTokens # Undefined THEN Num(parseInt(o.maxTokens).n) ELSE Undefined,
         o.theme, Undefined)

\* an invocation of a settings handler: its position (pc), its argument, its
\* locals (other: otherSettings or safeSettings; apiKey; parsed: the legacy
\* object), and whether a write of it failed (fault, a ghost)
Invocation(op, pc, isObject, arg, other) ==
  [op |-> op, pc |-> pc, isObject |-> isObject, arg |-> arg, other |-> other,
   apiKey |-> Str(""), parsed |-> EmptyObject, fault |-> FALSE]

One(rec) == SetToBag({rec})

\* no invocation in progress, none has run
NotSolo == [alone |-> FALSE, g0 |-> Missing, s0 |-> Missing]

\* a new invocation: it runs alone when none is in progress, and from then
\* on the invocations in progress do not
Start(rec) ==
  /\ BagCardinality(calls) < MaxCalls
  /\ calls' = calls (+) One(rec)
  /\ solo' = IF calls = EmptyBag THEN [alone |-> TRUE, g0 |-> general, s0 |-> secret]
                                 ELSE NotSolo

\* what the handler invocation rec returns: ok for settings:save, settings
\* for settings:load; fault when the write of this step failed
Returned(rec, ok, settings, fault) ==
  [op |-> rec.op, isObject |-> rec.isObject, arg |-> rec.arg, ok |-> ok,
   settings |-> settings, alone |-> solo.alone, fault |-> rec.fault \/ fault,
   seq |-> 1 - sret.seq]

\* the invocation rec returns
Return(rec, ok, settings, fault) ==
  /\ calls' = calls (-) One(rec)
  /\ sret' = Returned(rec, ok, settings, fault)
  /\ solo' = [solo EXCEPT !.alone = FALSE]

\* the invocation rec goes on to pc with locals changed as in new
Goto(rec, new, pc) ==
  /\ calls' = (calls (-) One(rec)) (+) One([new EXCEPT !.pc = pc])
  /\ UNCHANGED <<sret, solo>>

NoReturn == [op |-> "none", isObject |-> FALSE, arg |-> EmptyObject, ok |-> Undefined,
             settings |-> EmptyObject, alone |-> FALSE, fault |-> FALSE, seq |-> 0]

\* how an awaited fs.writeFile may end: the file written, or a rejection that
\* leaves the file as it was or truncated (unparseable)
WriteResults == {"written", "failed", "torn"}
Written(file, content, res) ==
  CASE res = "written" -> Json(content)
    [] res = "torn" -> Corrupt
    [] OTHER -> file

\* config.json as the handlers write it: JSON.stringify({ apiKey })
KeyObject(apiKey) == Object(Undefined, Undefined, Undefined, apiKey)

\* settings:save returns at once: lines 543, 548, and (no apiKey supplied) 554-567
SaveRejectsAtCall(isObject, o) ==
  \/ ~isObject
  \/ o.apiKey # Undefined /\ typeof(o.apiKey) # "string"
  \/ o.apiKey = Undefined /\ InvalidPrefs(o)

\* settings:save is called: what runs before the first await
SaveCall(isObject, o) ==
  /\ IF SaveRejectsAtCall(isObject, o)
     THEN /\ BagCardinality(calls) < MaxCalls
          /\ sret' = [Returned(Invocation("save", "idle", isObject, o, EmptyObject),
                               False, EmptyObject, FALSE)
                        EXCEPT !.alone = (calls = EmptyBag)]
          /\ solo' = IF calls = EmptyBag
                     THEN [alone |-> FALSE, g0 |-> general, s0 |-> secret]
                     ELSE solo
          /\ UNCHANGED calls
     ELSE /\ Start(Invocation("save",
                              IF o.apiKey # Undefined THEN "writeSecret" ELSE "writeGeneral",
                              isObject, o,
                              IF o.apiKey # Undefined THEN EmptyObject ELSE safeSettings(o)))
          /\ UNCHANGED sret
  /\ UNCHANGED <<general, secret>>
  /\ UNCHANGED notSettingsVars

\* settings:save, lines 549-567: the key is written to config.json, and only
\* then are model, maxTokens and theme validated
SaveWriteSecret(rec, res) ==
  /\ rec.op = "save" /\ rec.pc = "writeSecret"
  /\ secret' = Written(secret, KeyObject(rec.arg.apiKey), res)
  /\ IF res # "written" THEN Return(rec, False, EmptyObject, TRUE)
     ELSE IF InvalidPrefs(rec.arg) THEN Return(rec, False, EmptyObject, FALSE)
     ELSE Goto(rec, [rec EXCEPT !.other = safeSettings(rec.arg)], "writeGeneral")
  /\ UNCHANGED general
  /\ UNCHANGED notSettingsVars

\* settings:save, lines 569-575
SaveWriteGeneral(rec, res) ==
  /\ rec.op = "save" /\ rec.pc = "writeGeneral"
  /\ general' = Written(general, rec.other, res)
  /\ Return(rec, IF res = "written" THEN True ELSE False, EmptyObject, res # "written")
  /\ UNCHANGED secret
  /\ UNCHANGED notSettingsVars

\* settings:load is called: lines 578-585, up to the first readFile
LoadCall ==
  /\ Start(Invocation("load", "readSettings", FALSE, EmptyObject, defaults))
  /\ UNCHANGED <<general, secret, sret>>
  /\ UNCHANGED notSettingsVars

\* settings:load, lines 585-601
LoadReadSettings(rec) ==
  /\ rec.op = "load" /\ rec.pc = "readSettings"
  /\ Goto(rec, [rec EXCEPT !.other = OtherSettings(general)], "readSecret")
  /\ UNCHANGED <<general, secret>>
  /\ UNCHANGED notSettingsVars

\* the value settings:load returns (line 624)
Loaded(other, apiKey) == [other EXCEPT !.apiKey = apiKey]

\* settings:load, lines 601-608: config.json read; the catch branch is
\* entered only when reading or parsing it throws
LoadReadSecret(rec) ==
  /\ rec.op = "load" /\ rec.pc = "readSecret"
  /\ IF Readable(secret)
     THEN Return(rec, Undefined, Loaded(rec.other, SecretKey(secret)), FALSE)
     ELSE Goto(rec, rec, "readLegacy")
  /\ UNCHANGED <<general, secret>>
  /\ UNCHANGED notSettingsVars

\* settings:load, lines 608-614: the legacy key looked up in settings.json
LoadReadLegacy(rec) ==
  /\ rec.op = "load" /\ rec.pc = "readLegacy"
  /\ IF HasLegacyKey(general)
     THEN Goto(rec, [rec EXCEPT !.apiKey = general.o.apiKey, !.parsed = general.o],
               "writeSecret")
     ELSE Return(rec, Undefined, Loaded(rec.other, rec.apiKey), FALSE)
  /\ UNCHANGED <<general, secret>>
  /\ UNCHANGED notSettingsVars

\* variant: settings.json is rewritten without the key in the same step,
\* whether or not config.json could be written
LoadWriteSecretRemovesFirst(rec, res) ==
  /\ rec.op = "load" /\ rec.pc = "writeSecret"
  /\ general' = Json(rest(rec.parsed))
  /\ secret' = Written(secret, KeyObject(rec.apiKey), res)
  /\ Return(rec, Undefined, Loaded(rec.other, rec.apiKey), res # "written")
  /\ UNCHANGED notSettingsVars

\* settings:load, lines 613-617: the key written to config.json
LoadWriteSecret(rec, res) ==
  /\ rec.op = "load" /\ rec.pc = "writeSecret"
  /\ secret' = Written(secret, KeyObject(rec.apiKey), res)
  /\ IF res = "written" THEN Goto(rec, rec, "writeGeneral")
     ELSE Return(rec, Undefined, Loaded(rec.other, rec.apiKey), TRUE)
  /\ UNCHANGED general
  /\ UNCHANGED notSettingsVars

\* settings:load, lines 616-624: settings.json rewritten without the key
LoadWriteGeneral(rec, res) ==
  /\ rec.op = "load" /\ rec.pc = "writeGeneral"
  /\ general' = Written(general, rest(rec.parsed), res)
  /\ Return(rec, Undefined, Loaded(rec.other, rec.apiKey), res # "written")
  /\ UNCHANGED secret
  /\ UNCHANGED notSettingsVars

\* the process dies (crash or quit) and starts again: the invocations in
\* progress are gone, the files are as the last completed write left them
Crash ==
  /\ calls # EmptyBag
  /\ calls' = EmptyBag
  /\ sret' = NoReturn
  /\ solo' = NotSolo
  /\ UNCHANGED <<general, secret>>
  /\ UNCHANGED notSettingsVars

\* settings:load run from files (g, s) with no other invocation in progress
\* and every write succeeding: the value returned and the files left
LoadRun(g, s) ==
  IF Readable(s)
  THEN [settings |-> Loaded(OtherSettings(g), SecretKey(s)), general |-> g, secret |-> s]
  ELSE IF HasLegacyKey(g)
  THEN [settings |-> Loaded(OtherSettings(g), g.o.apiKey), general |-> Json(rest(g.o)),
        secret |-> Json(KeyObject(g.o.apiKey))]
  ELSE [settings |-> Loaded(OtherSettings(g), Str("")), general |-> g, secret |-> s]

\* files the program may find at start: absent, hand-edited or damaged, or
\* left by an earlier version (the key stored in settings.json)
LegacyObject == Object(Str("mercury"), Undefined, Undefined, Str("abc"))
InitialGeneral == {Missing, Corrupt, Json(LegacyObject),
                   Json(Object(Num(3), Str("12x"), Str("neon"), Undefined))}
InitialSecret == {Missing, Corrupt, Json(EmptyObject), Json(KeyObject(Str(""))),
                  Json(KeyObject(Num(5))), Json(KeyObject(Str("k1")))}

\* arguments of settings:save
SaveArgs == {Object(Str("mercury-coder"), Str("100"), Str("auto"), Str("k2")),
             Object(Undefined, Undefined, Str("light"), Undefined),
             Object(Undefined, Num(0), Undefined, Undefined),
             Object(Undefined, Num(20000), Undefined, Str("k2")),
             Object(Str("not-a-model"), Undefined, Undefined, Undefined),
             Object(Undefined, Undefined, Str("neon"), Str("k2")),
             Object(Undefined, Undefined, Undefined, Num(5))}

InProgress == BagToSet(calls)

LoadNext ==
  \/ LoadCall
  \/ \E rec \in InProgress : LoadReadSettings(rec)
  \/ \E rec \in InProgress : LoadReadSecret(rec)
  \/ \E rec \in InProgress : LoadReadLegacy(rec)
  \/ \E rec \in InProgress, res \in WriteResults : LoadWriteSecret(rec, res)
  \/ \E rec \in InProgress, res \in WriteResults : LoadWriteGeneral(rec, res)
  \/ Crash

SaveNext ==
  \/ \E o \in SaveArgs : SaveCall(TRUE, o)
  \/ SaveCall(FALSE, EmptyObject)
  \/ \E rec \in InProgress, res \in WriteResults : SaveWriteSecret(rec, res)
  \/ \E rec \in InProgress, res \in WriteResults : SaveWriteGeneral(rec, res)

-----------------------------------------------------------------------------
(* Renderer: the chat form's submit handler (part_002 lines 572-702).  A    *)
(* submit runs up to its next await in one step; the IPC call it awaits is  *)
(* handled atomically by the main process, in the order the calls are sent. *)

MaxSubmits == 2

\* what the user may have typed, and what the API may answer
Inputs == {" hi ", " "}
Replies == {Str("re"), Undefined}
Responses == {"ok", "notOk", "rejected"}
\* where a db:save-message sent by the renderer may fail
ChatFailPoints == {"none", "message"}

\* a submit in progress: the trimmed prompt, the value db:save-message
\* returned for the user message (userRet) and for the reply (asstRet), the
\* request sent to the API (payload; sent tells whether one was sent), the
\* apiKey that settings:load returned and how the API answered (res)
Submission(userMsg, userRet) ==
  [pc |-> "loadSettings", userMsg |-> userMsg, userRet |-> userRet, sent |-> FALSE,
   apiKey |-> Undefined,
   payload |-> [model |-> "", messages |-> <<>>, max_tokens |-> 0, key |-> ""],
   res |-> "none", reply |-> "", asstRet |-> Undefined]

\* lines 572-595: the prompt is trimmed, an empty one is dropped, and the
\* user message is saved through db:save-message
Submit(input, failAt) ==
  /\ Len(subs) < MaxSubmits
  /\ trim(input) # ""
  /\ SaveFailure(Str("user"), Str(trim(input)), failAt)
  /\ LET o == SaveMessageOutcome(Str("user"), Str(trim(input)), failAt)
     IN /\ Apply(o)
        /\ subs' = Append(subs, Submission(trim(input), o.ret))
  /\ UNCHANGED <<db, now, last, general, secret, calls, solo, sret, mainVars>>

\* variant: the request carries the stored history and then the prompt
PayloadWithHistory(settings, userMsg) ==
  [model |-> settings.model.s,
   messages |-> [k \in 1..Len(messages) |->
                   [role |-> messages[k].role, content |-> messages[k].content]]
                \o <<[role |-> "user", content |-> userMsg]>>,
   max_tokens |-> IF Truthy(settings.maxTokens) THEN settings.maxTokens.n ELSE 16384,
   key |-> trim(settings.apiKey.s)]

\* variant: a key of white space counts as a key
BlankKeyUntrimmed(settings) == ~Truthy(settings.apiKey)

\* line 618: no usable API key
BlankKey(settings) ==
  ~Truthy(settings.apiKey) \/ ~Truthy(Str(trim(settings.apiKey.s)))

\* lines 645-654: the request body
Payload(settings, userMsg) ==
  [model |-> settings.model.s,
   messages |-> <<[role |-> "user", content |-> userMsg]>>,
   max_tokens |-> IF Truthy(settings.maxTokens) THEN settings.maxTokens.n ELSE 16384,
   key |-> trim(settings.apiKey.s)]

\* lines 602-666: settings:load answers (it runs here with no other settings
\* call in progress), a blank key ends the submit, otherwise the request is sent
SettingsLoaded(i) ==
  /\ subs[i].pc = "loadSettings"
  /\ calls = EmptyBag
  /\ LET r == LoadRun(general, secret)
     IN /\ general' = r.general
        /\ secret' = r.secret
        /\ subs' = [subs EXCEPT ![i] =
                      IF BlankKey(r.settings)
                      THEN [@ EXCEPT !.pc = "done", !.apiKey = r.settings.apiKey]
                      ELSE [@ EXCEPT !.pc = "fetch", !.sent = TRUE,
                                     !.apiKey = r.settings.apiKey,
                                     !.payload = Payload(r.settings, subs[i].userMsg)]]
  /\ UNCHANGED <<storeVars, calls, solo, sret, mainVars>>

\* line 670
ReplyOf(content) == IF Truthy(content) THEN content.s ELSE "[No response]"

\* lines 667-701: the API answers; on an OK response the reply is saved
\* through db:save-message, otherwise nothing is stored
Respond(i, res, content, failAt) ==
  /\ subs[i].pc = "fetch"
  /\ IF res = "ok"
     THEN /\ SaveFailure(Str("assistant"), Str(ReplyOf(content)), failAt)
          /\ LET o == SaveMessageOutcome(Str("assistant"), Str(ReplyOf(content)), failAt)
             IN /\ Apply(o)
                /\ subs' = [subs EXCEPT ![i] = [@ EXCEPT !.pc = "done", !.res = res,
                                                         !.reply = ReplyOf(content),
                                                         !.asstRet = o.ret]]
     ELSE /\ failAt = "none" /\ content = Undefined
          /\ subs' = [subs EXCEPT ![i] = [@ EXCEPT !.pc = "done", !.res = res]]
          /\ UNCHANGED <<conversations, messages, currentConversationId>>
  /\ UNCHANGED <<db, now, last, general, secret, calls, solo, sret, mainVars>>

\* part_002 lines 483-495: the New Chat menu command calls db:new-chat
MenuNewChat ==
  /\ Apply(NewChatOutcome)
  /\ UNCHANGED <<db, now, last, subs, general, secret, calls, solo, sret, mainVars>>

ChatNext ==
  \/ \E input \in Inputs, failAt \in ChatFailPoints : Submit(input, failAt)
  \/ \E i \in 1..MaxSubmits : i <= Len(subs) /\ SettingsLoaded(i)
  \/ \E i \in 1..MaxSubmits, res \in Responses, content \in Replies,
          failAt \in ChatFailPoints :
       i <= Len(subs) /\ Respond(i, res, content, failAt)
  \/ MenuNewChat

InitStoreIdle ==
  /\ db = "open"
  /\ conversations = <<>>
  /\ messages = <<>>
  /\ currentConversationId = 0
  /\ now = 0
  /\ last = NoCall
  /\ running = NoFrame
  /\ mainWindow = "shown"

InitFiles ==
  /\ general \in InitialGeneral
  /\ secret \in InitialSecret
  /\ calls = EmptyBag
  /\ solo = NotSolo
  /\ sret = NoReturn

InitChatIdle == subs = <<>>
InitSettingsIdle ==
  /\ general = Missing
  /\ secret = Missing
  /\ calls = EmptyBag
  /\ solo = NotSolo
  /\ sret = NoReturn

Init == InitStore /\ InitChatIdle /\ InitSettingsIdle

\* the handler calls of the main process; the clock stands still, so every
\* row carries the same timestamp and a query may return equal-keyed rows in
\* any order
StoreNext ==
  \/ \E role \in Roles, content \in Contents, failAt \in FailPoints :
       SaveMessage(role, content, failAt)
  \/ \E title \in Titles, failAt \in FailPoints : CreateConversation(title, failAt)
  \/ NewChat
  \/ \E arg \in ConversationIdArgs, failAt \in FailPoints : GetConversationMessages(arg, failAt)
  \/ \E failAt \in FailPoints : GetRecentChats(failAt)
  \/ \E ok \in BOOLEAN : ProcessStart(ok)

Next == StoreNext

Spec == Init /\ [][Next]_vars

\* the chat: submits, API answers and the New Chat menu command interleaved
ChatInit ==
  /\ InitStoreIdle /\ InitChatIdle
  /\ \E files \in {<<Missing, Missing>>, <<Json(LegacyObject), Missing>>,
                    <<Missing, Json(KeyObject(Str(" k1 ")))>>,
                    <<Missing, Json(KeyObject(Str(" ")))>>} :
       general = files[1] /\ secret = files[2]
  /\ calls = EmptyBag
  /\ solo = NotSolo
  /\ sret = NoReturn
SpecChat == ChatInit /\ [][ChatNext]_vars

\* the settings store alone: loads (with the migration), crashes, failing writes
MigrationInit == InitStoreIdle /\ InitChatIdle /\ InitFiles
MigrationNext == LoadNext
SpecMigration == MigrationInit /\ [][MigrationNext]_vars

\* loads and saves interleaved
SettingsNext == LoadNext \/ SaveNext
SettingsInit ==
  /\ InitStoreIdle /\ InitChatIdle
  /\ general \in {Missing, Json(LegacyObject)}
  /\ secret \in {Missing, Json(KeyObject(Str("k1")))}
  /\ calls = EmptyBag
  /\ solo = NotSolo
  /\ sret = NoReturn
SpecSettings == SettingsInit /\ [][SettingsNext]_vars

\* the store with the clock running: messages saved (the updated_at update
\* may fail), conversations created, the pointer reset, the two queries, and
\* time passing between the calls
ClockRoles == {Str("user"), Str("assistant")}
ClockFailPoints == {"none", "update"}
ClockNext ==
  \/ \E role \in ClockRoles, failAt \in ClockFailPoints :
       SaveMessage(role, Str(" yo "), failAt)
  \/ CreateConversation(Undefined, "none")
  \/ NewChat
  \/ GetConversationMessages(Num(1), "none")
  \/ GetRecentChats("none")
  \/ Tick
ClockInit == InitStoreIdle /\ InitChatIdle /\ InitSettingsIdle
SpecClock == ClockInit /\ [][ClockNext]_vars

\* the store with message contents of 2, 50 and 51 characters, around the
\* length at which the derived title is cut
TitleContents == {Str("hi"),
                  Str("01234567890123456789012345678901234567890123456789"),
                  Str("01234567890123456789012345678901234567890123456789x")}
\* titles passed to db:create-conversation: none, a number, a blank one, one
\* with white space around it, and one of 201 characters
TitleArgs == {Undefined, Num(5), Str(" \t"), Str(" t "),
              Str("01234567890123456789012345678901234567890123456789012345678901234567890123456789012345678901234567890123456789012345678901234567890123456789012345678901234567890123456789012345678901234567890123456789x")}
TitleNext ==
  \/ \E role \in ClockRoles, content \in TitleContents : SaveMessage(role, content, "none")
  \/ \E title \in TitleArgs : CreateConversation(title, "none")
  \/ NewChat
TitleInit == InitStoreIdle /\ InitChatIdle /\ InitSettingsIdle
SpecTitle == TitleInit /\ [][TitleNext]_vars

\* db:save-message statement by statement. The handler is declared async but
\* holds no await, and better-sqlite3 runs each statement synchronously: the
\* pcs at which the handler would give the event loop back are none.
SuspensionPointsBetweenStatements == {"test", "message", "update"}

SuspensionPoints == {}

\* the event loop hands the next IPC call to its handler when no handler is on
\* the stack: none has begun, or the one that has is suspended at an await
Dispatchable == running = NoFrame \/ running.pc \in SuspensionPoints

\* the invocation: its arguments, the statement that will throw (failAt), the
\* next statement (pc), and what the whole handler run as one step from the
\* state at its call would leave behind (atomic)
Frame(role, content, failAt) ==
  [pc |-> "clear", role |-> role, content |-> content, failAt |-> failAt,
   atomic |-> SaveMessageOutcome(role, content, failAt)]

SaveReturn(ret) ==
  /\ last' = Called("save", running.role, running.content, Undefined, running.failAt,
                    ret, FALSE)
  /\ running' = NoFrame

\* lines 302-305: the guards; a call they reject returns at once
SaveBegin(role, content, failAt) ==
  /\ running = NoFrame
  /\ HasRoom
  /\ SaveFailure(role, content, failAt)
  /\ IF db = "null" \/ ~ValidMessage(role, content)
     THEN /\ last' = Called("save", role, content, Undefined, failAt, Null, FALSE)
          /\ running' = running
     ELSE /\ running' = Frame(role, content, failAt)
          /\ last' = last
  /\ UNCHANGED <<db, conversations, messages, currentConversationId, now>>
  /\ UNCHANGED <<subs, general, secret, calls, solo, sret, mainWindow>>

\* lines 308-310
SaveClear ==
  /\ running.pc = "clear"
  /\ currentConversationId' = PointerAfterRole(running.role, currentConversationId)
  /\ running' = [running EXCEPT !.pc = "test"]
  /\ UNCHANGED <<db, conversations, messages, now, last>>
  /\ UNCHANGED <<subs, general, secret, calls, solo, sret, mainWindow>>

\* lines 312-322
SaveEnsureConversation ==
  /\ running.pc = "test"
  /\ IF currentConversationId # 0
     THEN /\ running' = [running EXCEPT !.pc = "message"]
          /\ UNCHANGED <<conversations, currentConversationId, last>>
     ELSE IF running.failAt = "conversation"
     THEN /\ SaveReturn(Null)
          /\ UNCHANGED <<conversations, currentConversationId>>
     ELSE /\ conversations' = InsertConversation(conversations,
                                                  DerivedTitle(running.content.s), now)
          /\ currentConversationId' = Len(conversations')
          /\ running' = [running EXCEPT !.pc = "message"]
          /\ last' = last
  /\ UNCHANGED <<db, messages, now>>
  /\ UNCHANGED <<subs, general, secret, calls, solo, sret, mainWindow>>

\* lines 325-326
SaveInsertMessage ==
  /\ running.pc = "message"
  /\ IF running.failAt = "message"
     THEN /\ SaveReturn(Null)
          /\ messages' = messages
     ELSE /\ messages' = InsertMessage(messages, currentConversationId, running.role.s,
                                       running.content.s, now)
          /\ running' = [running EXCEPT !.pc = "update"]
          /\ last' = last
  /\ UNCHANGED <<db, conversations, currentConversationId, now>>
  /\ UNCHANGED <<subs, general, secret, calls, solo, sret, mainWindow>>

\* lines 327-328
SaveUpdate ==
  /\ running.pc = "update"
  /\ IF running.failAt = "update"
     THEN /\ SaveReturn(Null)
          /\ conversations' = conversations
     ELSE /\ conversations' = TouchConversation(conversations, currentConversationId, now)
          /\ SaveReturn(Num(Len(messages)))
  /\ UNCHANGED <<db, messages, currentConversationId, now>>
  /\ UNCHANGED <<subs, general, secret, calls, solo, sret, mainWindow>>

\* the handlers as the event loop runs them: a save statement by statement,
\* any other handler when it can be dispatched
HandlerNext ==
  \/ \E role \in Roles, content \in Contents, failAt \in FailPoints :
       SaveBegin(role, content, failAt)
  \/ SaveClear
  \/ SaveEnsureConversation
  \/ SaveInsertMessage
  \/ SaveUpdate
  \/ Dispatchable /\ \E title \in Titles : CreateConversation(title, "none")
  \/ Dispatchable /\ NewChat
  \/ Dispatchable /\ \E arg \in ConversationIdArgs : GetConversationMessages(arg, "none")
  \/ Dispatchable /\ GetRecentChats("none")

HandlerInit == Init
SpecHandler == HandlerInit /\ [][HandlerNext]_vars

\* saves of whole settings objects and loads interleaved: every field
\* supplied, the token limit as a number and as text, the key empty or not
RoundTripArgs == {Object(Str("mercury-coder"), Num(100), Str("auto"), Str("k2")),
                  Object(Str("mercury"), Num(16384), Str("light"), Str("")),
                  Object(Str("mercury-coder"), Str("100"), Str("auto"), Str("k2"))}
RoundTripNext ==
  \/ LoadNext
  \/ \E o \in RoundTripArgs : SaveCall(TRUE, o)
  \/ \E rec \in InProgress, res \in WriteResults : SaveWriteSecret(rec, res)
  \/ \E rec \in InProgress, res \in WriteResults : SaveWriteGeneral(rec, res)
RoundTripInit == SettingsInit
SpecRoundTrip == RoundTripInit /\ [][RoundTripNext]_vars

\* loads interleaved with saves that supply no apiKey; the writes of the saves
\* succeed, those of the loads may fail
KeylessArgs == {Object(Undefined, Undefined, Str("light"), Undefined),
                Object(Str("mercury-coder"), Num(100), Undefined, Undefined),
                Object(Undefined, Num(0), Undefined, Undefined)}
KeylessNext ==
  \/ LoadNext
  \/ \E o \in KeylessArgs : SaveCall(TRUE, o)
  \/ \E rec \in InProgress : SaveWriteGeneral(rec, "written")
KeylessInit == SettingsInit
SpecKeyless == KeylessInit /\ [][KeylessNext]_vars

\* Window events of the main process within one process lifetime.
\* 'close' with app.isQuiting unset (lines 130-141): the window is hidden
HideWindow ==
  /\ mainWindow = "shown"
  /\ mainWindow' = "hidden"
  /\ UNCHANGED <<db, conversations, messages, currentConversationId, now, last>>
  /\ UNCHANGED <<subs, general, secret, calls, solo, sret, running>>

\* the tray's handlers with a window (lines 176-181, 191-196, 224-230, 239-245)
ShowWindow ==
  /\ mainWindow = "hidden"
  /\ mainWindow' = "shown"
  /\ UNCHANGED <<db, conversations, messages, currentConversationId, now, last>>
  /\ UNCHANGED <<subs, general, secret, calls, solo, sret, running>>

\* 'closed' (lines 144-146): the window is gone, which 'close' lets happen
\* once app.isQuiting is set
WindowClosed ==
  /\ mainWindow # "null"
  /\ mainWindow' = "null"
  /\ UNCHANGED <<db, conversations, messages, currentConversationId, now, last>>
  /\ UNCHANGED <<subs, general, secret, calls, solo, sret, running>>

\* createWindow called with no window, from 'activate' (lines 273-277) or the
\* tray (183, 199, 232, 247): initDatabase runs again (line 89), opening a
\* handle and resetting the pointer (line 58) when it succeeds (ok), and
\* setting db to null when it fails, before the pointer is touched
CreateWindow(ok) ==
  /\ mainWindow = "null"
  /\ mainWindow' = "shown"
  /\ db' = IF ok THEN "open" ELSE "null"
  /\ currentConversationId' = IF ok THEN 0 ELSE currentConversationId
  /\ UNCHANGED <<conversations, messages, now, last>>
  /\ UNCHANGED <<subs, general, secret, calls, solo, sret, running>>

\* the renderer of the window calls the handlers that move the pointer
WindowNext ==
  \/ HideWindow
  \/ ShowWindow
  \/ WindowClosed
  \/ \E ok \in BOOLEAN : CreateWindow(ok)
  \/ mainWindow # "null" /\ \E role \in ClockRoles : SaveMessage(role, Str(" yo "), "none")
  \/ mainWindow # "null" /\ CreateConversation(Undefined, "none")
  \/ mainWindow # "null" /\ NewChat

WindowInit == Init
SpecWindow == WindowInit /\ [][WindowNext]_vars

-----------------------------------------------------------------------------
(* Properties *)

\* a db:* handler call is the step that flips last.seq
SaveStep == last'.seq # last.seq /\ last'.op = "save"

\* C1: every db:save-message call with role user that returns a message id
\* adds exactly one conversation row with a fresh id (the rows there before
\* are kept), stores the message under that row, and leaves the pointer
\* equal to the new id, whatever the pointer was before the call.
C1_UserSaveCreatesConversation ==
  [][(SaveStep /\ last'.role = Str("user") /\ last'.ret # Null)
       => /\ Len(conversations') = Len(conversations) + 1
          /\ \A i \in 1..Len(conversations) :
               /\ conversations'[i] = conversations[i]
               /\ conversations'[Len(conversations')].id # conversations[i].id
          /\ Len(messages') = Len(messages) + 1
          /\ last'.ret = Num(Len(messages'))
          /\ messages'[Len(messages')].conversation_id = conversations'[Len(conversations')].id
          /\ messages'[Len(messages')].role = "user"
          /\ currentConversationId' = conversations'[Len(conversations')].id]_vars

\* two consecutive successful user saves, the second made with the pointer set
C1_TwoUserSaves ==
  /\ last.op = "save" /\ last.role = Str("user") /\ last.ret = Num(2)
  /\ Len(conversations) = 2 /\ currentConversationId = 2
  /\ messages[1].role = "user" /\ messages[1].conversation_id = 1
  /\ messages[2].role = "user" /\ messages[2].conversation_id = 2

\* C2 (as claimed): for every chat submit whose user message and assistant
\* reply were both stored, the reply is stored in the conversation of that
\* submit's user message.
C2_ReplyInPromptConversation ==
  \A i \in 1..Len(subs) :
    (subs[i].userRet.t = "number" /\ subs[i].asstRet.t = "number")
      => messages[subs[i].asstRet.n].conversation_id
           = messages[subs[i].userRet.n].conversation_id

\* C3: after a db:save-message call with role user or assistant that returned
\* a message id, db:get-conversation-messages for the conversation the message
\* was stored in returns an array holding a row with that id, the role and
\* the content as passed.
C3_SavedMessageListed ==
  (last.op = "save" /\ last.ret # Null)
    => /\ currentConversationId = messages[last.ret.n].conversation_id
       /\ \A rows \in ConversationMessages(Num(currentConversationId)) :
            \E k \in 1..Len(rows) :
              /\ rows[k].id = last.ret.n
              /\ rows[k].role = last.role.s
              /\ rows[k].content = last.content.s

\* an assistant message with white space around it was saved
C3_AssistantSaved ==
  /\ last.op = "save" /\ last.role = Str("assistant") /\ last.content = Str(" yo ")
  /\ last.ret # Null
  /\ \E rows \in ConversationMessages(Num(currentConversationId)) :
       \E k \in 1..Len(rows) : rows[k].id = last.ret.n /\ rows[k].content = " yo "

\* C4 (as claimed): a db:save-message call that returns null because the
\* message insert or the updated_at update threw leaves no message row of
\* that call in the table, and no conversation row created by that call as
\* the current conversation.
C4_FailedSaveLeavesNothing ==
  [][(SaveStep /\ last'.ret = Null /\ last'.failAt \in {"message", "update"})
       => /\ messages' = messages
          /\ ~(/\ Len(conversations') > Len(conversations)
               /\ currentConversationId' = Len(conversations'))]_vars

\* C5: a db:save-message call with a role other than user and assistant, or
\* with a content that is no string or is blank when trimmed, returns null,
\* does not throw, and leaves both tables and the pointer as they were.
C5_InvalidSaveChangesNothing ==
  [][(SaveStep /\ ~ValidMessage(last'.role, last'.content))
       => /\ last'.ret = Null
          /\ ~last'.threw
          /\ UNCHANGED <<conversations, messages, currentConversationId>>]_vars

\* a user message with blank content was rejected while a conversation is current
C5_InvalidUserSave ==
  /\ last.op = "save" /\ last.role = Str("user") /\ last.content = Str(" \t")
  /\ last.ret = Null /\ currentConversationId # 0 /\ db = "open"

\* C6 (as claimed): no db:* handler call ends with an error thrown to the
\* caller (a rejected promise), whatever statement of it fails.
C6_NoHandlerThrows == ~last.threw

\* the latest settings handler return, of an invocation that ran with no
\* other invocation in progress; solo holds the files at its call
ReturnedAlone(op) == sret.op = op /\ sret.alone /\ calls = EmptyBag

\* C7 (as claimed): a settings:save call with an object whose model,
\* maxTokens or theme fails validation returns false and leaves settings.json
\* and config.json with the contents they had at the call.
C7_InvalidSaveKeepsFiles ==
  (ReturnedAlone("save") /\ sret.isObject /\ InvalidPrefs(sret.arg) /\ ~sret.fault)
    => /\ sret.ok = False
       /\ general = solo.g0
       /\ secret = solo.s0

\* C8: a settings:load call made with a legacy key in settings.json and no
\* config.json, running with no other settings call in progress and with its
\* writes succeeding, returns that key, and at its return settings.json holds
\* no apiKey field and config.json holds {apiKey: <that key>}.
C8_LegacyKeyMigrated ==
  (ReturnedAlone("load") /\ ~sret.fault /\ HasLegacyKey(solo.g0) /\ solo.s0 = Missing)
    => /\ sret.settings.apiKey = solo.g0.o.apiKey
       /\ Readable(general) /\ general.o.apiKey = Undefined
       /\ general.o = [solo.g0.o EXCEPT !.apiKey = Undefined]
       /\ secret = Json(KeyObject(solo.g0.o.apiKey))

\* the load of {apiKey: "abc", model: "mercury"} with no config.json has returned
C8_LegacyLoadReturned ==
  /\ ReturnedAlone("load") /\ ~sret.fault
  /\ solo.g0 = Json(LegacyObject) /\ solo.s0 = Missing
  /\ sret.settings.apiKey = Str("abc")

\* a settings:load call that found a legacy key in settings.json and no
\* readable config.json, with no other settings call in progress
Migrating == solo.alone /\ HasLegacyKey(solo.g0) /\ ~Readable(solo.s0)

\* C9: while a migrating settings:load runs, every step (a write that
\* succeeds, fails or leaves the file truncated, a crash of the process, the
\* return) leaves the legacy key in settings.json or in config.json, where a
\* load that follows finds and returns it.
C9_KeyKeptDuringMigration ==
  [][Migrating
       => /\ \/ HasLegacyKey(general') /\ general'.o.apiKey = solo.g0.o.apiKey
             \/ Readable(secret') /\ secret'.o.apiKey = solo.g0.o.apiKey
          /\ LoadRun(general', secret').settings.apiKey = solo.g0.o.apiKey]_vars

\* between the two writes of the migration: the key is in both files
C9_BetweenWrites ==
  /\ Migrating
  /\ \E rec \in InProgress : rec.op = "load" /\ rec.pc = "writeGeneral"
  /\ secret = Json(KeyObject(solo.g0.o.apiKey))
  /\ HasLegacyKey(general)

\* config.json holds no key
NoSecretKey(file) ==
  ~Readable(file) \/ typeof(file.o.apiKey) # "string" \/ file.o.apiKey = Str("")

\* C10 (as claimed): a settings:load call made while config.json holds no key
\* (missing, unparseable, or with an absent, empty or non-string apiKey) and
\* settings.json holds a legacy key returns that key and leaves it in
\* config.json and no longer in settings.json.
C10_MigratesWheneverNoKey ==
  (ReturnedAlone("load") /\ ~sret.fault /\ HasLegacyKey(solo.g0) /\ NoSecretKey(solo.s0))
    => /\ sret.settings.apiKey = solo.g0.o.apiKey
       /\ secret = Json(KeyObject(solo.g0.o.apiKey))
       /\ Readable(general) /\ general.o.apiKey = Undefined

\* C11: a settings:load call made when neither settings.json nor config.json
\* exists returns exactly {model: "mercury-2", maxTokens: 16384, theme:
\* "dark", apiKey: ""}, and takes the no-legacy-key path: it writes no file.
C11_FreshLoadReturnsDefaults ==
  (ReturnedAlone("load") /\ solo.g0 = Missing /\ solo.s0 = Missing)
    => /\ sret.settings = Object(Str("mercury-2"), Num(16384), Str("dark"), Str(""))
       /\ ~sret.fault
       /\ general = Missing
       /\ secret = Missing

\* a load on a fresh environment has returned
C11_FreshLoadReturned ==
  /\ ReturnedAlone("load") /\ solo.g0 = Missing /\ solo.s0 = Missing
  /\ sret.settings.apiKey = Str("")

\* the value is an integer in [1, 16384]
IsTokenCount(v) ==
  v.t = "number" /\ ~v.frac /\ v.n >= 1 /\ v.n <= 16384

SaveSucceeds == sret'.seq # sret.seq /\ sret'.op = "save" /\ sret'.ok = True

\* C13: when a settings:save call returns true, settings.json holds only
\* validated values of model, maxTokens and theme and no apiKey field; an
\* apiKey passed to the call is in config.json (as {apiKey}) when the call
\* ran with no other settings call in progress.
C13_SavedPrefsHoldNoKey ==
  [][SaveSucceeds
       => /\ Readable(general')
          /\ general'.o.apiKey = Undefined
          /\ general'.o.model = Undefined \/ includes(ALLOWED_MODELS, general'.o.model)
          /\ general'.o.maxTokens = Undefined \/ IsTokenCount(general'.o.maxTokens)
          /\ general'.o.theme = Undefined \/ includes(ALLOWED_THEMES, general'.o.theme)
          /\ (solo.alone /\ sret'.arg.apiKey # Undefined)
               => secret' = Json(KeyObject(sret'.arg.apiKey))]_vars

\* save({model: "mercury-coder", maxTokens: "100", theme: "auto", apiKey: "k2"})
\* has returned true
C13_FullSaveReturned ==
  /\ ReturnedAlone("save") /\ sret.ok = True
  /\ sret.arg = Object(Str("mercury-coder"), Str("100"), Str("auto"), Str("k2"))
  /\ general = Json(Object(Str("mercury-coder"), Num(100), Str("auto"), Undefined))
  /\ secret = Json(KeyObject(Str("k2")))

\* C14: in every reachable state currentConversationId is null or the id of
\* a row of table conversations.
C14_PointerNullOrExisting ==
  \/ currentConversationId = 0
  \/ \E i \in 1..Len(conversations) : conversations[i].id = currentConversationId

\* the pointer is on the second conversation, created by db:create-conversation
C14_PointerOnCreated ==
  /\ last.op = "create" /\ last.ret = Num(2)
  /\ currentConversationId = 2 /\ Len(conversations) = 2

\* C15: in every reachable state the conversation_id of every row of table
\* messages is the id of exactly one row of table conversations.
C15_MessagesHaveOneParent ==
  \A k \in 1..Len(messages) :
    Cardinality({i \in 1..Len(conversations) :
                   conversations[i].id = messages[k].conversation_id}) = 1

\* two messages stored in two conversations
C15_TwoParents ==
  /\ Len(messages) = 2
  /\ messages[1].conversation_id = 1 /\ messages[2].conversation_id = 2

\* C16 (as claimed): in every reachable state, also after a db:save-message
\* call whose message insert succeeded and whose updated_at update failed,
\* the updated_at of each conversation is at least the created_at of each of
\* its messages (so of its most recent one).
C16_UpdatedAtCoversMessages ==
  \A i \in 1..Len(conversations), k \in 1..Len(messages) :
    messages[k].conversation_id = conversations[i].id
      => conversations[i].updated_at >= messages[k].created_at

\* rows is an answer to "the limit most recently updated conversations":
\* at most limit entries, none missing while there is room, each a
\* conversation listed once, newest first, and no conversation left out is
\* newer than one listed
RecentOk(rows, limit) ==
  /\ Len(rows) <= limit
  /\ Len(rows) = (IF Len(conversations) > limit THEN limit ELSE Len(conversations))
  /\ \A i \in 1..Len(rows) :
       \E c \in Rows(conversations) : c.id = rows[i].id /\ c.updated_at = rows[i].updated_at
  /\ \A i, j \in 1..Len(rows) : i < j
       => rows[i].id # rows[j].id /\ rows[i].updated_at >= rows[j].updated_at
  /\ \A c \in Rows(conversations) :
       (\A i \in 1..Len(rows) : rows[i].id # c.id)
         => \A i \in 1..Len(rows) : rows[i].updated_at >= c.updated_at

\* C17: in every store state the recent-chats query with LIMIT n returns at
\* most n entries, sorted by updated_at descending, which are the
\* conversations with the greatest updated_at; db:get-recent-chats is that
\* query with n = 20.
C17_RecentChatsLimitedAndSorted ==
  /\ \A rows \in RecentChats : RecentOk(rows, 20)
  /\ \A n \in 1..MaxConvs : \A rows \in SelectRecentChatsLimit(n) : RecentOk(rows, n)
  /\ RecentChats = SelectRecentChatsLimit(20)

\* db:get-recent-chats was called with two conversations updated at different
\* times: the table holds the older one first, the answer the newer one first
C17_RecentChatsCalled ==
  /\ last.op = "recent" /\ last.ret = ObjectValue
  /\ Len(conversations) = 2
  /\ conversations[1].updated_at < conversations[2].updated_at
  /\ \A rows \in RecentChats : rows[1].id = 2 /\ rows[2].id = 1

\* the argument is a positive integer: a number, or its decimal digits as text
PlainPositiveInteger(arg) ==
  \/ arg.t = "number" /\ ~arg.frac /\ arg.n > 0
  \/ /\ arg.t = "string" /\ arg.s # ""
     /\ \A i \in 1..Len(arg.s) : IsDigit(SubSeq(arg.s, i, i))
     /\ DigitRun(arg.s, 0) > 0

\* C18 (as claimed): db:get-conversation-messages returns an empty array for
\* every argument that is not a positive integer (zero, partly numeric text
\* such as "1abc") and for every positive integer that is no conversation id.
C18_EmptyForInvalidId ==
  \A arg \in ConversationIdArgs :
    (\/ ~PlainPositiveInteger(arg)
     \/ \A i \in 1..Len(conversations) : conversations[i].id # ConversationIdOf(arg))
      => ConversationMessages(arg) = {<<>>}

\* C19: for the id of every existing conversation, db:get-conversation-messages
\* returns exactly the rows of table messages with that conversation_id, each
\* once, ordered by created_at ascending.
C19_ListsExactlyTheConversation ==
  \A i \in 1..Len(conversations) :
    \A rows \in ConversationMessages(Num(conversations[i].id)) :
      /\ Len(rows) = Cardinality({k \in 1..Len(messages) :
                                    messages[k].conversation_id = conversations[i].id})
      /\ \A k \in 1..Len(messages) :
           messages[k].conversation_id = conversations[i].id
             => \E j \in 1..Len(rows) : rows[j] = messages[k]
      /\ \A j \in 1..Len(rows) :
           \E k \in 1..Len(messages) :
             rows[j] = messages[k] /\ messages[k].conversation_id = conversations[i].id
      /\ \A j1, j2 \in 1..Len(rows) : j1 < j2 => rows[j1].created_at <= rows[j2].created_at

\* db:get-conversation-messages(1) was called with two messages stored in
\* conversation 1 at different times
C19_TwoMessagesListed ==
  /\ last.op = "messages" /\ last.arg = Num(1) /\ last.ret = ObjectValue
  /\ Len(messages) = 2
  /\ messages[1].conversation_id = 1 /\ messages[2].conversation_id = 1
  /\ messages[1].created_at < messages[2].created_at

\* C20: a db:save-message call with role assistant made while the pointer is
\* null, and returning a message id, adds one conversation row whose title is
\* the content when that has at most 50 characters and else its first 50
\* characters followed by "..." (the rule applied to user messages), stores
\* the message under that row and leaves the pointer on it.
C20_AssistantSaveCreatesConversation ==
  [][(SaveStep /\ last'.role = Str("assistant") /\ last'.ret # Null
        /\ currentConversationId = 0)
       => /\ Len(conversations') = Len(conversations) + 1
          /\ \A i \in 1..Len(conversations) : conversations'[i] = conversations[i]
          /\ conversations'[Len(conversations')].title =
               (IF Len(last'.content.s) > 50
                THEN SubSeq(last'.content.s, 1, 50) \o "..."
                ELSE last'.content.s)
          /\ Len(messages') = Len(messages) + 1
          /\ messages'[Len(messages')] =
               MsgRow(last'.ret.n, conversations'[Len(conversations')].id, "assistant",
                      last'.content.s, now)
          /\ currentConversationId' = conversations'[Len(conversations')].id]_vars

\* an assistant message of 51 characters was saved after db:new-chat: the
\* second conversation was created for it and is current
C20_AssistantAfterNewChat ==
  /\ last.op = "save" /\ last.role = Str("assistant") /\ Len(last.content.s) = 51
  /\ last.ret = Num(2)
  /\ Len(conversations) = 2 /\ currentConversationId = 2
  /\ Len(conversations[2].title) = 53
  /\ messages[2].conversation_id = 2 /\ messages[2].role = "assistant"

\* C21: a db:save-message call with role assistant made while the pointer is
\* the id of a conversation, and returning a message id, stores the message
\* under that id, adds no conversation row and leaves the pointer as it was.
C21_AssistantSaveAttaches ==
  [][(SaveStep /\ last'.role = Str("assistant") /\ last'.ret # Null
        /\ currentConversationId # 0)
       => /\ Len(conversations') = Len(conversations)
          /\ Len(messages') = Len(messages) + 1
          /\ messages'[Len(messages')] =
               MsgRow(last'.ret.n, currentConversationId, "assistant", last'.content.s, now)
          /\ currentConversationId' = currentConversationId]_vars

\* the reply was stored in the conversation of the user message before it
C21_ReplyAttached ==
  /\ last.op = "save" /\ last.role = Str("assistant") /\ last.ret = Num(2)
  /\ Len(conversations) = 1 /\ currentConversationId = 1
  /\ messages[1].role = "user" /\ messages[1].conversation_id = 1
  /\ messages[2].role = "assistant" /\ messages[2].conversation_id = 1

\* the step of a db:new-chat call
NewChatStep == last'.seq # last.seq /\ last'.op = "newChat"

C23_StartForgetsConversation ==
  [][/\ last'.op = "none" => currentConversationId' = 0
     /\ (currentConversationId' # currentConversationId /\ currentConversationId' # 0)
          => /\ Len(conversations') = Len(conversations) + 1
             /\ currentConversationId' = conversations'[Len(conversations')].id
     /\ (last.op = "none" /\ SaveStep /\ last'.ret # Null)
          => /\ Len(conversations') = Len(conversations) + 1
             /\ messages'[Len(messages')].conversation_id
                  = conversations'[Len(conversations')].id
             /\ \A i \in 1..Len(conversations) :
                  conversations[i].id # messages'[Len(messages')].conversation_id]_vars

\* the process has started with a conversation and a message stored by an
\* earlier run
C23_StartedWithHistory ==
  /\ last = NoCall /\ db = "open"
  /\ Len(conversations) >= 1 /\ Len(messages) >= 1
  /\ currentConversationId = 0

\* the step of a db:create-conversation call that returns an id
CreateStep == last'.seq # last.seq /\ last'.op = "create" /\ last'.ret.t = "number"

\* the call of this step inserted exactly one conversation row, with the
\* given title, and its id is returned and is the pointer
CreatedWithTitle(title) ==
  /\ Len(conversations') = Len(conversations) + 1
  /\ \A i \in 1..Len(conversations) : conversations'[i] = conversations[i]
  /\ conversations'[Len(conversations')].title = title
  /\ last'.ret = Num(conversations'[Len(conversations')].id)
  /\ currentConversationId' = conversations'[Len(conversations')].id
  /\ messages' = messages

\* the title is absent, not a string or blank
NoTitle(title) == title.t # "string" \/ trim(title.s) = ""

\* C24 (as claimed): a db:create-conversation call inserts exactly one row
\* whose title is "New Chat" when the title is absent, not a string or blank,
\* and otherwise the supplied title cut to its first 200 characters; the
\* returned id becomes the pointer.
C24_TitleCut ==
  [][CreateStep
       => CreatedWithTitle(IF NoTitle(last'.arg) THEN "New Chat"
                           ELSE IF Len(last'.arg.s) > 200
                                THEN SubSeq(last'.arg.s, 1, 200)
                                ELSE last'.arg.s)]_vars

\* C24 (amended): a db:create-conversation call that returns an id inserts
\* exactly one row whose title is "New Chat" when the title is absent, not a
\* string or blank, and otherwise the supplied title with the white space
\* around it removed and then cut to its first 200 characters; the returned
\* id becomes the pointer.
C24_TitleTrimmedAndCut ==
  [][CreateStep
       => CreatedWithTitle(IF NoTitle(last'.arg) THEN "New Chat"
                           ELSE IF Len(trim(last'.arg.s)) > 200
                                THEN SubSeq(trim(last'.arg.s), 1, 200)
                                ELSE trim(last'.arg.s))]_vars

\* a conversation was created with a title of 201 characters, stored cut to 200
C24_LongTitleCreated ==
  /\ last.op = "create" /\ Len(last.arg.s) = 201 /\ last.ret = Num(1)
  /\ Len(conversations[1].title) = 200
  /\ currentConversationId = 1

\* the step of a db:save-message call that inserted a conversation row
SaveCreates == SaveStep /\ Len(conversations') = Len(conversations) + 1

\* C25 (as claimed): when db:save-message creates a conversation, its title
\* is the content if that has at most 50 characters, and otherwise the first
\* 50 characters of the content followed by the one-character ellipsis
\* (U+2026; any single character here, strings of the model being ASCII).
C25_TitleWithEllipsisCharacter ==
  [][SaveCreates
       => LET title == conversations'[Len(conversations')].title
              content == last'.content.s
          IN IF Len(content) <= 50 THEN title = content
             ELSE /\ Len(title) = 51
                  /\ SubSeq(title, 1, 50) = SubSeq(content, 1, 50)]_vars

\* C25 (amended): when db:save-message creates a conversation, its title is
\* the content if that has at most 50 characters, and otherwise the first 50
\* characters of the content followed by three full stops "...".
C25_TitleWithThreeDots ==
  [][SaveCreates
       => LET title == conversations'[Len(conversations')].title
              content == last'.content.s
          IN IF Len(content) <= 50 THEN title = content
             ELSE title = SubSeq(content, 1, 50) \o "..."]_vars

\* a user message of 51 characters was saved: the title of its conversation
\* has 53 characters and ends in "..."
C25_LongUserMessageSaved ==
  /\ last.op = "save" /\ last.role = Str("user") /\ Len(last.content.s) = 51
  /\ last.ret # Null
  /\ Len(conversations[currentConversationId].title) = 53
  /\ SubSeq(conversations[currentConversationId].title, 51, 53) = "..."

\* the step of any db:* handler call
HandlerStep == last'.seq # last.seq /\ last'.op # "none"

\* the value each handler returns when it cannot work
Sentinel(op) ==
  CASE op \in {"save", "create"} -> Null
    [] op = "newChat" -> True
    [] op \in {"recent", "messages"} -> ObjectValue

\* C26: while database initialisation has failed (db is null) every db:*
\* handler returns its sentinel (null from create-conversation and
\* save-message, an empty array from both list handlers, true from new-chat),
\* throws nothing and changes neither the tables nor the pointer.
C26_NoHandleNoEffect ==
  /\ [](db = "null"
          => /\ RecentChats = {<<>>}
             /\ \A arg \in ConversationIdArgs : ConversationMessages(arg) = {<<>>})
  /\ [][(HandlerStep /\ db = "null")
          => /\ ~last'.threw
             /\ last'.ret = Sentinel(last'.op)
             /\ UNCHANGED <<db, conversations, messages, currentConversationId>>]_vars

\* the recent chats were asked for after a start that could not open the
\* database file, which holds a conversation of an earlier run
C26_ListedWithoutHandle ==
  /\ db = "null" /\ last.op = "recent"
  /\ Len(conversations) >= 1 /\ Len(messages) >= 1

\* C27: stored history is append-only: no step removes a conversation or a
\* message, changes the id, title or created_at of a conversation, or changes
\* any field of a message; of the rows that exist, only the updated_at of a
\* conversation ever changes.
C27_HistoryAppendOnly ==
  [][/\ Len(conversations') >= Len(conversations)
     /\ Len(messages') >= Len(messages)
     /\ \A i \in 1..Len(messages) : messages'[i] = messages[i]
     /\ \A i \in 1..Len(conversations) :
          conversations'[i] = [conversations[i] EXCEPT
                                 !.updated_at = conversations'[i].updated_at]]_vars

\* a reply was stored a second after its conversation was created: the row's
\* updated_at moved on, the rest of it and the prompt's message stayed
C27_ConversationTouchedLater ==
  /\ last.op = "save" /\ last.role = Str("assistant") /\ last.ret # Null
  /\ Len(messages) = 2
  /\ messages[1].conversation_id = messages[2].conversation_id
  /\ conversations[currentConversationId].updated_at
       > conversations[currentConversationId].created_at

\* C28: every request sent to the API carries a messages list of exactly one
\* entry, of role user, whose content is the prompt of that submit, however
\* many exchanges went before.
C28_RequestCarriesOnlyThePrompt ==
  \A i \in 1..Len(subs) :
    subs[i].sent
      => /\ Len(subs[i].payload.messages) = 1
         /\ subs[i].payload.messages[1] = [role |-> "user", content |-> subs[i].userMsg]

\* a second request was sent after a first exchange was stored in full
C28_SecondRequestSent ==
  /\ Len(subs) = 2 /\ subs[2].sent
  /\ subs[1].asstRet # Undefined /\ subs[1].asstRet # Null
  /\ Len(messages) >= 3

\* the request of submit i is issued in this step
Issued(i) == i <= Len(subs) /\ ~subs[i].sent /\ subs'[i].sent

\* C29: for each submit, the user message's save has completed when the request
\* is issued, and an assistant message is saved only in answer to an OK
\* response; with a blank apiKey loaded no request is sent; a request that fails
\* or gets a non-OK status stores no assistant message.
C29_StepsInOrder ==
  /\ [](\A i \in 1..Len(subs) :
          /\ subs[i].pc = "loadSettings"
               => ~subs[i].sent /\ subs[i].res = "none" /\ subs[i].asstRet = Undefined
          /\ subs[i].sent
               => Truthy(subs[i].apiKey) /\ trim(subs[i].apiKey.s) # ""
          /\ (subs[i].res # "none" \/ subs[i].asstRet # Undefined) => subs[i].sent
          /\ subs[i].asstRet # Undefined => subs[i].res = "ok"
          /\ subs[i].res \in {"notOk", "rejected"} => subs[i].asstRet = Undefined)
  /\ [][/\ \A i \in 1..MaxSubmits :
             Issued(i)
               => /\ messages' = messages
                  /\ subs[i].userRet # Undefined
                  /\ subs[i].userRet # Null
                       => /\ subs[i].userRet.n \in 1..Len(messages)
                          /\ messages[subs[i].userRet.n].role = "user"
                          /\ messages[subs[i].userRet.n].content = subs[i].userMsg
        /\ \A i \in 1..MaxSubmits :
             (i <= Len(subs) /\ subs[i].res = "none"
                /\ subs'[i].res \in {"notOk", "rejected"})
               => UNCHANGED <<conversations, messages, currentConversationId>>
        /\ (Len(messages') > Len(messages)
              /\ messages'[Len(messages')].role = "assistant")
             => \E i \in 1..Len(subs) :
                  /\ subs[i].pc = "fetch" /\ subs[i].sent
                  /\ subs'[i].res = "ok"
                  /\ subs'[i].asstRet = Num(Len(messages'))]_vars

\* one exchange was stored in full and the next request was rejected: three
\* messages are stored, the last of them the second prompt
C29_AnsweredThenRejected ==
  /\ Len(subs) = 2
  /\ subs[1].res = "ok" /\ subs[1].asstRet # Null
  /\ subs[2].sent /\ subs[2].res = "rejected" /\ subs[2].userRet # Null
  /\ Len(messages) = 3 /\ messages[3].role = "user"

\* the user-role messages stored in conversation cid
UserMessagesOf(cid) ==
  {i \in 1..Len(messages) :
     messages[i].conversation_id = cid /\ messages[i].role = "user"}

\* C30: in every reachable state each conversation holds at most one message
\* of role user.
C30_OneUserMessagePerConversation ==
  \A c \in 1..Len(conversations) : Cardinality(UserMessagesOf(conversations[c].id)) <= 1

\* a user message was saved while the pointer stood on a conversation made by
\* db:create-conversation: it went into a conversation of its own
C30_UserSaveAfterCreate ==
  /\ last.op = "save" /\ last.role = Str("user") /\ last.ret = Num(1)
  /\ Len(conversations) = 2 /\ conversations[1].title = "New Chat"
  /\ UserMessagesOf(1) = {} /\ UserMessagesOf(2) = {1}

\* the conversation that the message stored by the latest save belongs to
AppendedTo == messages'[last'.ret.n].conversation_id

\* C31: after every db:save-message call that returns a message id, the
\* conversation c that received the message has updated_at equal to the time
\* of the call, no conversation has a greater updated_at, and in every answer
\* db:get-recent-chats may then give, no conversation listed before c has a
\* strictly older updated_at than c.
C31_AppendMakesMostRecent ==
  [][(SaveStep /\ last'.ret # Null)
       => /\ \E i \in 1..Len(conversations') :
               /\ conversations'[i].id = AppendedTo
               /\ conversations'[i].updated_at = now
          /\ \A i \in 1..Len(conversations') : conversations'[i].updated_at <= now
          /\ \A rows \in RecentChats' :
               \A i, j \in 1..Len(rows) :
                 (i < j /\ rows[j].id = AppendedTo) => rows[i].updated_at >= now]_vars

\* a message was stored a second after an older conversation was made: its
\* conversation carries the later time and is listed first
C31_LaterAppendListedFirst ==
  /\ last.op = "save" /\ last.ret = Num(1) /\ now = 1
  /\ Len(conversations) = 2 /\ messages[1].conversation_id = 2
  /\ conversations[1].updated_at = 0 /\ conversations[2].updated_at = 1
  /\ \A rows \in RecentChats : rows[1].id = 2

\* C32: the statements of one db:save-message call run with no suspension
\* point: from its first statement to its return every step is a step of that
\* call, no other db:* handler is called in between, and at its return the
\* tables, the pointer and the value returned are those of the whole handler
\* run as one step from the state at its call.
C32_SaveRunsUnobserved ==
  [][running # NoFrame
       => /\ running' # running
          /\ HandlerStep => (last'.op = "save" /\ running' = NoFrame)
          /\ running' = NoFrame
               => /\ conversations' = running.atomic.convs
                  /\ messages' = running.atomic.msgs
                  /\ currentConversationId' = running.atomic.ptr
                  /\ last'.ret = running.atomic.ret]_vars

\* a user save has cleared the pointer and inserted its conversation, next to
\* an older one, and has not yet inserted its message
C32_BetweenInserts ==
  /\ running # NoFrame /\ running.pc = "message" /\ running.role = Str("user")
  /\ Len(conversations) = 2 /\ currentConversationId = 2
  /\ \A k \in 1..Len(messages) : messages[k].conversation_id # 2

\* every field of the settings object is supplied and valid
ValidWhole(o) ==
  /\ includes(ALLOWED_MODELS, o.model)
  /\ IsTokenCount(o.maxTokens)
  /\ includes(ALLOWED_THEMES, o.theme)
  /\ typeof(o.apiKey) = "string"

\* C33: when a settings:save call with a settings object whose model,
\* maxTokens (an integer in [1, 16384]), theme and apiKey are all supplied and
\* valid returns true, having run with no other settings call in progress, a
\* settings:load that follows returns exactly those four values; and a
\* settings:load that runs alone with its writes succeeding returns the
\* defaults overlaid with the valid stored preferences and the stored key.
C33_SaveThenLoadReturnsSaved ==
  /\ [][(SaveSucceeds /\ solo.alone /\ ValidWhole(sret'.arg))
          => /\ LoadRun(general', secret').settings = sret'.arg
             /\ LoadRun(general', secret').general = general'
             /\ LoadRun(general', secret').secret = secret']_vars
  /\ []((ReturnedAlone("load") /\ ~sret.fault)
          => sret.settings = LoadRun(solo.g0, solo.s0).settings)

\* a load returned the four values of the save made before it, over files
\* left by an earlier version
C33_LoadedWhatWasSaved ==
  /\ ReturnedAlone("load") /\ ~sret.fault
  /\ solo.g0 = Json(Object(Str("mercury-coder"), Num(100), Str("auto"), Undefined))
  /\ solo.s0 = Json(KeyObject(Str("k2")))
  /\ sret.settings = Object(Str("mercury-coder"), Num(100), Str("auto"), Str("k2"))

\* the key that a settings:load would return from these files
StoredKey(g, s) == LoadRun(g, s).settings.apiKey

\* C34 (as claimed): once a key is stored in settings.json (legacy) or in
\* config.json, no step of a settings:load or of a settings:save that supplies
\* no apiKey changes the key that a load returns.
C34_KeyNeverLost ==
  [][StoredKey(general, secret) # Str("")
       => StoredKey(general', secret') = StoredKey(general, secret)]_vars

\* the step at which a settings:load call returns
LoadReturns == sret'.seq # sret.seq /\ sret'.op = "load"

\* C35 (as claimed): when a settings:load that migrates the legacy key
\* returns, nothing else being in progress, and the return before it was that
\* of a settings:save which ran concurrently and returned true, settings.json
\* holds the preferences that the save wrote.
C35_SaveSurvivesMigration ==
  [][(/\ LoadReturns /\ ~sret'.fault /\ calls' = EmptyBag
      /\ sret'.settings.apiKey # Str("")
      /\ sret.op = "save" /\ sret.ok = True /\ ~sret.alone)
       => general' = Json(safeSettings(sret.arg))]_vars

\* what a settings:load returned, or would return, from the files at the call
\* of the save that ran alone
LoadedBefore == LoadRun(solo.g0, solo.s0).settings

\* C36 (as claimed): when a settings:save call with a partial object returns
\* true, having run alone over files that hold no legacy key, a settings:load
\* returns for every field the object omits the value it returned before the
\* save, and for every field it supplies the value supplied.
C36_PartialSaveKeepsTheRest ==
  [][(SaveSucceeds /\ solo.alone /\ ~HasLegacyKey(solo.g0))
       => LET after == LoadRun(general', secret').settings
              arg == sret'.arg
          IN /\ arg.model = Undefined => after.model = LoadedBefore.model
             /\ arg.maxTokens = Undefined => after.maxTokens = LoadedBefore.maxTokens
             /\ arg.theme = Undefined => after.theme = LoadedBefore.theme
             /\ arg.apiKey = Undefined => after.apiKey = LoadedBefore.apiKey
             /\ arg.theme # Undefined => after.theme = arg.theme]_vars

\* C37 (as claimed): within one process lifetime the pointer changes only in
\* a call of db:create-conversation, db:save-message or db:new-chat, and a
\* window event (the window hidden, shown, closed or created again) leaves
\* the pointer and the database handle as they were.
C37_WindowEventsKeepPointer ==
  [][/\ currentConversationId' # currentConversationId
          => (HandlerStep /\ last'.op \in {"create", "save", "newChat"})
     /\ mainWindow' # mainWindow => UNCHANGED <<currentConversationId, db>>]_vars

\* a migration was interrupted between its two writes: the legacy key is in
\* config.json and still in settings.json
HalfMigrated(g, s) ==
  HasLegacyKey(g) /\ s = Json(KeyObject(g.o.apiKey))

\* C38 (as claimed): a settings:load that is called with the files left by an
\* interrupted migration (the key written to config.json, not yet removed from
\* settings.json), runs alone and returns with no write failing, leaves
\* settings.json without the apiKey field.
C38_NextLoadCompletesMigration ==
  (ReturnedAlone("load") /\ ~sret.fault /\ HalfMigrated(solo.g0, solo.s0))
    => ~HasLegacyKey(general)

====
